---- MODULE Spec2Model ----
(***************************************************************************)
(* A model of the SoundMachine class of src/main.js: the playback registry *)
(* (activeSounds), the tile marks, the sleep timer, the combination        *)
(* commit, the recurring schedulers of the rain and forest builders and    *)
(* the step chain of the lullaby builder.                                  *)
(*                                                                         *)
(* Every handler of the class is one action.  The browser's table of live  *)
(* setInterval handles is the variable intervals; a callback of a live     *)
(* interval may run at any point between two handlers (single-threaded,    *)
(* run to completion).  The pending setTimeout callbacks, with the         *)
(* variables their closures hold, are the variable timeouts.               *)
(*                                                                         *)
(* Time: the code reads the clock only as the difference                   *)
(* timerEndTime - Date.now() (lines 306 and 320), so the model keeps that  *)
(* difference, in milliseconds, in the variable timerEndTime: setTimer     *)
(* sets it to the duration and every elapsed second lowers it by 1000.     *)
(* The handlers of the user run SecondsPerStep seconds apart: one step of  *)
(* the clock is that many consecutive callbacks of the timer's interval,   *)
(* cut short by the callback that finds the deadline reached.              *)
(*                                                                         *)
(* Presentational DOM state with no effect on the handlers (the timer      *)
(* display, the highlighted timer button, the combination panel's          *)
(* visibility) is left out.                                                *)
(***************************************************************************)
EXTENDS Integers, FiniteSets, Sequences, TLC

VARIABLES
    activeSounds,   \* this.activeSounds: category -> handle set (NoEntry: no key)
    intervals,      \* the live setInterval handles of the page
    timeouts,       \* the pending setTimeout callbacks: [name, id, noteIndex]
    audioContext,   \* this.audioContext.state; "resuming": suspended, resume() pending
    nodes,          \* <<category, handle>>: the started sources and connected stages
    playing,        \* the data-sound values of the tiles that carry class 'playing'
    currentSound,   \* this.currentSound
    comboSounds,    \* this.comboSounds
    masterGain,     \* this.masterGain.gain.value, in percent
    timerDuration,  \* this.timerDuration (ms)
    timerEndTime,   \* this.timerEndTime - Date.now() (ms)
    timerInterval,  \* this.timerInterval: NoTimer or the id of the timer's interval
    userArmed,      \* history: the user's last setTimer call asked for minutes > 0
    notice,         \* what the last handler showed or logged
    last            \* the handler that ran last, its argument and the path it took

vars == <<activeSounds, intervals, timeouts, audioContext, nodes, playing, currentSound, comboSounds, masterGain,
          timerDuration, timerEndTime, timerInterval, userArmed, notice, last>>

----------------------------------------------------------------------------
(* Bounds of the model *)

\* at most this many live intervals of one scheduler kind, and as many pending
\* step chains of the lullaby
MaxIntervals == 2

\* a step chain of the lullaby is followed up to this value of its noteIndex
MaxNotes == 10

\* the seconds that pass in one step of the clock
SecondsPerStep == 20

(* Program constants *)

MsPerMinute == 60000
TickMs == 1000
DefaultVolume == 50

NULL == "null"
NoTimer == 0
NoEntry == <<>>

\* the cases of playSound's switch
Categories ==
    {"white-noise", "pink-noise", "brown-noise", "heartbeat", "ocean",
     "rain", "snow", "forest", "lullaby"}

\* the keys of the object applyComboSettings builds from the checkboxes
ComboKeys ==
    {"white-noise", "brown-noise", "heartbeat", "ocean",
     "rain", "snow", "forest", "lullaby"}

(* Inputs *)

\* data-sound values of the tiles a click is tried on; "unknown" has no builder
SoundTypes == {"pink-noise", "ocean", "rain", "unknown"}

\* the checkboxes a user ticks before a commit
Checkboxes == {"pink-noise", "ocean", "rain"}

\* the same, for the runs that exercise the forest builder and its two schedulers
ForestTypes == {"ocean", "forest"}

\* the same, for the runs that exercise the lullaby builder and its step chain
LullabyTypes == {"lullaby", "rain"}

\* data-time values of the timer buttons
TimerMinutes == {0, 1}

\* the same, and the tiles clicked, for the runs that arm the timer twice
ArmMinutes == {0, 1, 2}
ArmTypes == {"ocean", "heartbeat"}

\* the same, for the runs in which the browser suspends and resumes the context
ResumeTypes == {"ocean", "heartbeat", "unknown"}

\* positions of the volume slider, in percent
Volumes == {30, 70}

----------------------------------------------------------------------------
(* Handles *)

Source(n) == [kind |-> "source", name |-> n, id |-> 0]
Stage(n) == [kind |-> "stage", name |-> n, id |-> 0]
Interval(n, i) == [kind |-> "interval", name |-> n, id |-> i]

\* the id setInterval returns: one no live interval of that callback holds
NewId(ivs, n) ==
    CHOOSE i \in 1..(Cardinality(ivs) + 1) :
        /\ Interval(n, i) \notin ivs
        /\ \A j \in 1..(i - 1) : Interval(n, j) \in ivs

\* the array a builder stores in activeSounds, and the intervals it creates; ivs is
\* the page's table of timers.  The oscillator and the gain of a lullaby are the ones
\* the closure of its step chain holds: they carry the id of that chain
HandleSet(c, ivs) ==
    CASE c = "white-noise" -> <<Source("whiteNoise"), Stage("filter")>>
      [] c = "pink-noise" -> <<Source("pinkNoise"), Stage("filter")>>
      [] c = "brown-noise" -> <<Source("brownNoise"), Stage("filter")>>
      [] c = "heartbeat" ->
            <<Source("heartbeatLFO"), Source("heartbeatSound"), Stage("heartbeatGain"),
              Stage("heartbeatLFOGain"), Stage("heartbeatFilter")>>
      [] c = "ocean" ->
            <<Source("oceanBase"), Stage("oceanFilter"), Stage("waveGain"),
              Source("waveLFO"), Stage("waveModulationGain")>>
      [] c = "lullaby" ->
            <<[Source("noteOsc") EXCEPT !.id = NewId(ivs, "playNextNote")],
              [Stage("noteGain") EXCEPT !.id = NewId(ivs, "playNextNote")]>>
      [] c = "rain" ->
            <<Source("rainBase"), Stage("rainFilter"), Stage("compressor"),
              Stage("rainGain"), Interval("raindropScheduler", NewId(ivs, "raindropScheduler"))>>
      [] c = "snow" ->
            <<Source("snowBase"), Stage("snowFilter"), Stage("secondFilter"),
              Stage("snowGain"), Source("windLFO"), Stage("windLFOGain")>>
      [] c = "forest" ->
            <<Source("forestBase"), Stage("forestFilter"), Stage("forestGain"),
              Interval("birdScheduler", NewId(ivs, "birdScheduler")),
              Interval("windScheduler", NewId(ivs, "windScheduler"))>>

Handles(hs) == {hs[i] : i \in 1..Len(hs)}
IntervalsOf(hs) == {h \in Handles(hs) : h.kind = "interval"}

Keys(reg) == {c \in Categories : reg[c] # NoEntry}

\* the interval handles that are in some registered handle set
Registered(reg) == UNION {IntervalsOf(reg[c]) : c \in Keys(reg)}

----------------------------------------------------------------------------
(* The methods, as functions of the part of the state they read and write: *)
(* m = [activeSounds, nodes, intervals, timeouts, audioContext,             *)
(* timerInterval, playing, notice]                                         *)

\* stopSound's forEach body on one handle: a source has stop(), a stage has
\* disconnect(); an interval id is a number and has neither, so nothing is done
Halted(c, h) == IF h.kind \in {"source", "stage"} THEN {<<c, h>>} ELSE {}
Cancelled(h) == {}

\* stopSound whose forEach body calls node.stop() only: a stage is left connected
StopSound_StopOnly(m, soundType) ==
    IF soundType \in Categories /\ m.activeSounds[soundType] # NoEntry
    THEN LET hs == {h \in Handles(m.activeSounds[soundType]) : h.kind = "source"}
         IN  [m EXCEPT !.nodes = @ \ UNION {Halted(soundType, h) : h \in hs},
                       !.activeSounds[soundType] = NoEntry]
    ELSE m

\* stopSound that also forgets the timer's interval
StopSound_ForgetsTimer(m, soundType) ==
    IF soundType \in Categories /\ m.activeSounds[soundType] # NoEntry
    THEN LET hs == Handles(m.activeSounds[soundType])
         IN  [m EXCEPT !.nodes = @ \ UNION {Halted(soundType, h) : h \in hs},
                       !.timerInterval = NoTimer,
                       !.activeSounds[soundType] = NoEntry]
    ELSE m

StopSound(m, soundType) ==
    IF soundType \in Categories /\ m.activeSounds[soundType] # NoEntry
    THEN LET hs == Handles(m.activeSounds[soundType])
         IN  [m EXCEPT !.nodes = @ \ UNION {Halted(soundType, h) : h \in hs},
                       !.intervals = @ \ UNION {Cancelled(h) : h \in hs},
                       !.activeSounds[soundType] = NoEntry]
    ELSE m

\* clearTimer that forgets the id without clearInterval
ClearTimer_KeepsInterval(m) == [m EXCEPT !.timerInterval = NoTimer]

ClearTimer(m) ==
    IF m.timerInterval # NoTimer
    THEN [m EXCEPT !.intervals = @ \ {Interval("timer", m.timerInterval)},
                   !.timerInterval = NoTimer]
    ELSE m

RECURSIVE StopEach(_, _)
StopEach(m, ks) ==
    IF ks = {} THEN m
    ELSE LET k == CHOOSE x \in ks : TRUE
         IN  StopEach(StopSound(m, k), ks \ {k})

\* stopAllSounds that stops the sound named by currentSound and no other
StopAllSounds_CurrentOnly(m) == ClearTimer(StopSound(m, currentSound))

\* stopAllSounds without its clearTimer()
StopAllSounds_KeepsTimer(m) == StopEach(m, Keys(m.activeSounds))

\* stopAllSounds: stopSound for each key of Object.keys(activeSounds), then clearTimer
StopAllSounds(m) == ClearTimer(StopEach(m, Keys(m.activeSounds)))

\* a reset of the tiles that removes no mark
ResetTiles_None(m) == m

\* querySelectorAll('.sound-tile').forEach(t => t.classList.remove('playing'))
ResetTiles(m) == [m EXCEPT !.playing = {}]

\* the fixed sequence of playLullaby
Notes == <<"G4", "E4", "C4", "D4", "A3", "C4", "E4", "D4", "C4">>
NoteAt(noteIndex) == Notes[(noteIndex % Len(Notes)) + 1]

\* a step chain of the lullaby: the closure of playNextNote, with its noteIndex
Chain(i, noteIndex) == [name |-> "playNextNote", id |-> i, noteIndex |-> noteIndex]

\* the ids in use in the page's table of timers (setInterval and setTimeout)
Timers(m) == m.intervals \cup {Interval(t.name, t.id) : t \in m.timeouts}

\* playNextNote, run with the closure t: it returns when 'lullaby' has no key, and
\* else schedules note noteIndex mod 9 on the closure's oscillator, increments
\* noteIndex and sets the timeout of its next run
PlayNextNote(m, t) ==
    IF m.activeSounds["lullaby"] = NoEntry THEN m
    ELSE [m EXCEPT !.timeouts = @ \cup {Chain(t.id, t.noteIndex + 1)}]

\* a started source or connected stage that no handle set of the registry holds
Unreferenced(c, h) ==
    IF h.kind \in {"source", "stage"}
    THEN {<<c, [kind |-> "unreferenced", name |-> h.name, id |-> h.id]>>}
    ELSE {}

\* what a builder's assignment to activeSounds[c] leaves behind of the handle set
\* that was stored there: its nodes keep running and nothing refers to them
Overwritten(m, c) ==
    UNION {Unreferenced(c, h) : h \in Handles(m.activeSounds[c])}

\* a builder: it starts its nodes and intervals and stores its handle set; the
\* lullaby's builder then runs playNextNote once
Build(m, c) ==
    LET hs == HandleSet(c, Timers(m))
        built == [m EXCEPT !.activeSounds[c] = hs,
                           !.nodes = (@ \ UNION {Halted(c, h) : h \in Handles(m.activeSounds[c])})
                                     \cup Overwritten(m, c)
                                     \cup UNION {Halted(c, h) : h \in Handles(hs)},
                           !.intervals = @ \cup IntervalsOf(hs)]
    IN  IF c = "lullaby" THEN PlayNextNote(built, Chain(hs[1].id, 0)) ELSE built

(* The statements of a builder that create, start or store something *)
Alloc(n) == [do |-> "alloc", name |-> n]
Start(n) == [do |-> "start", name |-> n]
SetInterval(n) == [do |-> "interval", name |-> n]
Store == [do |-> "store", name |-> "activeSounds"]
Call(n) == [do |-> "call", name |-> n]

\* a builder that starts every source as soon as it is created
Steps_StartEarly(c) ==
    LET hs == HandleSet(c, {})
        One(h) == IF h.kind = "source" THEN <<Alloc(h.name), Start(h.name)>>
                  ELSE IF h.kind = "stage" THEN <<Alloc(h.name)>>
                  ELSE <<SetInterval(h.name)>>
        F[i \in 0..Len(hs)] == IF i = 0 THEN <<>> ELSE F[i - 1] \o One(hs[i])
    IN  F[Len(hs)] \o <<Store>>

\* the builders, statement by statement in the order of the source
Steps(c) ==
    CASE c = "white-noise" ->
            <<Alloc("noiseBuffer"), Alloc("whiteNoise"), Alloc("filter"),
              Start("whiteNoise"), Store>>
      [] c = "pink-noise" ->
            <<Alloc("noiseBuffer"), Alloc("pinkNoise"), Alloc("filter"),
              Start("pinkNoise"), Store>>
      [] c = "heartbeat" ->
            <<Alloc("heartbeatOsc"), Alloc("heartbeatGain"), Alloc("heartbeatLFO"),
              Alloc("heartbeatLFOGain"), Alloc("heartbeatSound"), Alloc("heartbeatFilter"),
              Start("heartbeatLFO"), Start("heartbeatSound"), Store>>
      [] c = "ocean" ->
            <<Alloc("noiseBuffer"), Alloc("oceanBase"), Alloc("oceanFilter"),
              Alloc("waveGain"), Alloc("waveLFO"), Alloc("waveModulationGain"),
              Start("oceanBase"), Start("waveLFO"), Store>>
      [] c = "lullaby" ->
            <<Alloc("noteOsc"), Alloc("noteGain"), Start("noteOsc"), Store,
              Call("playNextNote")>>
      [] c = "brown-noise" ->
            <<Alloc("noiseBuffer"), Alloc("brownNoise"), Alloc("filter"),
              Start("brownNoise"), Store>>
      [] c = "rain" ->
            <<Alloc("noiseBuffer"), Alloc("rainBase"), Alloc("rainFilter"),
              Alloc("compressor"), Alloc("rainGain"), Start("rainBase"),
              SetInterval("raindropScheduler"), Store>>
      [] c = "snow" ->
            <<Alloc("noiseBuffer"), Alloc("snowBase"), Alloc("snowFilter"),
              Alloc("secondFilter"), Alloc("snowGain"), Alloc("windLFO"),
              Alloc("windLFOGain"), Start("snowBase"), Start("windLFO"), Store>>
      [] c = "forest" ->
            <<Alloc("noiseBuffer"), Alloc("forestBase"), Alloc("forestFilter"),
              Alloc("forestGain"), Start("forestBase"), SetInterval("birdScheduler"),
              SetInterval("windScheduler"), Store>>

\* the statements of the builder of c that ran before its statement k threw
Ran(c, k) == {Steps(c)[j] : j \in 1..(k - 1)}

\* the builder of c, left by an exception of its statement k: what was started before
\* keeps running, held by no handle set unless the handle set was stored before
Thrown(m, c, k) ==
    IF Store \in Ran(c, k) THEN [m EXCEPT !.activeSounds[c] = HandleSet(c, Timers(m)),
                                          !.nodes = @ \cup UNION {Halted(c, h) :
                                                       h \in Handles(HandleSet(c, Timers(m)))},
                                          !.intervals = @ \cup IntervalsOf(HandleSet(c, Timers(m)))]
    ELSE [m EXCEPT !.nodes = @ \cup UNION {Unreferenced(c, Source(st.name)) :
                                             st \in {r \in Ran(c, k) : r.do = "start"}},
                   !.intervals = @ \cup {Interval(st.name, NewId(Timers(m), st.name)) :
                                             st \in {r \in Ran(c, k) : r.do = "interval"}}]

\* playSound's first statement: resume() is called when the context's state is
\* 'suspended'; the state stays 'suspended' until the promise of resume() resolves
Resume(m) ==
    IF m.audioContext \in {"suspended", "resuming"}
    THEN [m EXCEPT !.audioContext = "resuming"]
    ELSE m

\* playSound without the resume of a suspended context
PlaySound_NoResume(m, soundType) ==
    IF soundType \in Categories
    THEN [Build(m, soundType) EXCEPT !.playing = @ \cup {soundType}]
    ELSE [m EXCEPT !.notice = "warn"]

\* playSound: the context is resumed, the builder of soundType stores its handle set
\* and the tile of soundType is marked; a type with no builder is logged and nothing
\* else is done
PlaySound(m, soundType) ==
    IF soundType \in Categories
    THEN [Build(Resume(m), soundType) EXCEPT !.playing = @ \cup {soundType}]
    ELSE [Resume(m) EXCEPT !.notice = "warn"]

RECURSIVE PlayEach(_, _)
PlayEach(m, ks) ==
    IF ks = {} THEN m
    ELSE LET k == CHOOSE x \in ks : TRUE
         IN  PlayEach(PlaySound(m, k), ks \ {k})

\* the intervals of callback n that are live
Live(ivs, n) == {h \in ivs : h.name = n}

\* the model lets a builder create a scheduler only below the bound
Room(ivs, ks) ==
    /\ "lullaby" \in ks => Cardinality(Live(ivs, "playNextNote")) < MaxIntervals
    /\ "rain" \in ks => Cardinality(Live(ivs, "raindropScheduler")) < MaxIntervals
    /\ "forest" \in ks => Cardinality(Live(ivs, "birdScheduler")) < MaxIntervals
    /\ "forest" \in ks => Cardinality(Live(ivs, "windScheduler")) < MaxIntervals

Machine ==
    [activeSounds |-> activeSounds, nodes |-> nodes, intervals |-> intervals,
     timeouts |-> timeouts, audioContext |-> audioContext, timerInterval |-> timerInterval, playing |-> playing, notice |-> "none"]

Becomes(m) ==
    /\ activeSounds' = m.activeSounds
    /\ nodes' = m.nodes
    /\ intervals' = m.intervals
    /\ timeouts' = m.timeouts
    /\ audioContext' = m.audioContext
    /\ timerInterval' = m.timerInterval
    /\ playing' = m.playing
    /\ notice' = m.notice

Did(op, sound, sel, num, branch) ==
    [op |-> op, sound |-> sound, sel |-> sel, num |-> num, branch |-> branch]

----------------------------------------------------------------------------
Init ==
    /\ activeSounds = [c \in Categories |-> NoEntry]
    /\ intervals = {}
    /\ timeouts = {}
    /\ audioContext = "suspended"
    /\ nodes = {}
    /\ playing = {}
    /\ currentSound = NULL
    /\ comboSounds = [c \in Categories |-> FALSE]
    /\ masterGain = DefaultVolume
    /\ timerDuration = 0
    /\ timerEndTime = 0
    /\ timerInterval = NoTimer
    /\ userArmed = FALSE
    /\ notice = "none"
    /\ last = Did("init", "-", {}, 0, "-")

\* the true keys of a combination selection
Selected(combo) == {k \in DOMAIN combo : combo[k]}

\* toggleSound on a tile that is playing: every category of the committed combination
\* is stopped, not the clicked one alone
ToggleOff_Combo(m, soundType) ==
    [StopEach(m, Selected(comboSounds) \cup {soundType}) EXCEPT !.playing = {}]

\* toggleSound on a tile that is playing (soundType is never 'combo': the click
\* handler keeps the combo tile away from toggleSound)
ToggleOff(m, soundType) ==
    [StopSound(m, soundType) EXCEPT !.playing = @ \ {soundType}]

\* toggleSound on a tile that is not playing, without its stopAllSounds()
ToggleOn_NoStop(m, soundType) == PlaySound(ResetTiles(m), soundType)

\* toggleSound on a tile that is not playing
ToggleOn(m, soundType) == PlaySound(ResetTiles(StopAllSounds(m)), soundType)

\* toggleSound without the return that ends the 'already playing' branch
ToggleSound_NoReturn(soundType) ==
    /\ Room(Timers(Machine), {soundType})
    /\ Becomes(IF soundType \in playing
               THEN ToggleOn(ToggleOff(Machine, soundType), soundType)
               ELSE ToggleOn(Machine, soundType))
    /\ currentSound' = soundType
    /\ last' = Did("toggleSound", soundType, {}, 0,
                   IF soundType \in playing THEN "stop" ELSE "start")
    /\ UNCHANGED <<comboSounds, masterGain, timerDuration, timerEndTime, userArmed>>

\* a click on the tile of soundType
ToggleSound(soundType) ==
    IF soundType \in playing
    THEN /\ Becomes(ToggleOff(Machine, soundType))
         /\ last' = Did("toggleSound", soundType, {}, 0, "stop")
         /\ UNCHANGED <<currentSound, comboSounds, masterGain, timerDuration,
                        timerEndTime, userArmed>>
    ELSE /\ Room(Timers(Machine), {soundType})
         /\ Becomes(ToggleOn(Machine, soundType))
         /\ currentSound' = soundType
         /\ last' = Did("toggleSound", soundType, {}, 0, "start")
         /\ UNCHANGED <<comboSounds, masterGain, timerDuration, timerEndTime, userArmed>>

\* applyComboSettings that clears the selection once the sounds are started
ApplyComboSettings_Resets(checked) ==
    LET combo == [k \in ComboKeys |-> k \in checked]
        selected == {k \in ComboKeys : combo[k]}
        stopped == ResetTiles(StopAllSounds(Machine))
    IN  /\ Room(Timers(Machine), selected)
        /\ comboSounds' = [k \in ComboKeys |-> FALSE]
        /\ IF selected # {}
           THEN Becomes(PlayEach(stopped, selected))
           ELSE Becomes([stopped EXCEPT !.notice = "alert"])
        /\ last' = Did("applyComboSettings", "-", checked, 0,
                       IF selected # {} THEN "play" ELSE "alert")
        /\ UNCHANGED <<currentSound, masterGain, timerDuration, timerEndTime, userArmed>>

\* a click on the tile of soundType, not playing, whose builder throws at the
\* allocation that is its statement k: the exception leaves toggleSound at playSound
ToggleSoundThrows(soundType, k) ==
    /\ soundType \notin playing
    /\ k \in 1..Len(Steps(soundType))
    /\ Steps(soundType)[k].do = "alloc"
    /\ Room(Timers(Machine), {soundType})
    /\ Becomes([Thrown(Resume(ResetTiles(StopAllSounds(Machine))), soundType, k)
                   EXCEPT !.notice = "error"])
    /\ last' = Did("toggleSound", soundType, {}, k, "throw")
    /\ UNCHANGED <<currentSound, comboSounds, masterGain, timerDuration, timerEndTime,
                   userArmed>>

\* a click on 'apply-combo' with the checkboxes of checked ticked
ApplyComboSettings(checked) ==
    LET combo == [k \in ComboKeys |-> k \in checked]
        selected == {k \in ComboKeys : combo[k]}
        stopped == ResetTiles(StopAllSounds(Machine))
    IN  /\ Room(Timers(Machine), selected)
        /\ comboSounds' = combo
        /\ IF selected # {}
           THEN Becomes(PlayEach(stopped, selected))
           ELSE Becomes([stopped EXCEPT !.notice = "alert"])
        /\ last' = Did("applyComboSettings", "-", checked, 0,
                       IF selected # {} THEN "play" ELSE "alert")
        /\ UNCHANGED <<currentSound, masterGain, timerDuration, timerEndTime, userArmed>>

\* setVolume that sets the gain only while something is registered
SetVolume_WhenPlaying(value) ==
    /\ masterGain' = IF Keys(activeSounds) # {} THEN value ELSE masterGain
    /\ notice' = "none"
    /\ last' = Did("setVolume", "-", {}, value, "-")
    /\ UNCHANGED <<activeSounds, intervals, timeouts, audioContext, nodes, playing, currentSound,
                   comboSounds, timerDuration, timerEndTime, timerInterval, userArmed>>

\* the short sounds the schedulers start
Transients == {"drop", "chirp", "secondChirp", "rustle"}

\* the last connect() of each builder: <<the chain's last stage, what it feeds>>
Outlet(c) ==
    CASE c = "white-noise" -> <<"filter", "masterGain">>
      [] c = "pink-noise" -> <<"filter", "masterGain">>
      [] c = "heartbeat" -> <<"heartbeatGain", "masterGain">>
      [] c = "ocean" -> <<"waveGain", "masterGain">>
      [] c = "lullaby" -> <<"noteGain", "masterGain">>
      [] c = "brown-noise" -> <<"filter", "masterGain">>
      [] c = "rain" -> <<"rainGain", "masterGain">>
      [] c = "snow" -> <<"snowGain", "masterGain">>
      [] c = "forest" -> <<"forestGain", "masterGain">>
      [] c = "drop" -> <<"dropGain", "masterGain">>
      [] c = "chirp" -> <<"birdGain", "masterGain">>
      [] c = "secondChirp" -> <<"secondGain", "masterGain">>
      [] c = "rustle" -> <<"rustleGain", "masterGain">>
      [] c = "masterGain" -> <<"masterGain", "destination">>

\* the gain, in percent, between the chain of c and the destination
OutputGain(c) == IF Outlet(c)[2] = "masterGain" THEN masterGain ELSE 100

SetVolume(value) ==
    /\ masterGain' = value
    /\ notice' = "none"
    /\ last' = Did("setVolume", "-", {}, value, "-")
    /\ UNCHANGED <<activeSounds, intervals, timeouts, audioContext, nodes, playing, currentSound,
                   comboSounds, timerDuration, timerEndTime, timerInterval, userArmed>>

\* the path of a setTimer call: what was asked for, and whether a timer was armed
Path(minutes) ==
    IF timerInterval # NoTimer
    THEN (IF minutes = 0 THEN "cancel" ELSE "rearm")
    ELSE (IF minutes = 0 THEN "off" ELSE "arm")

\* setTimer with the deadline set minutes seconds ahead
SetTimer_Seconds(minutes) ==
    LET cleared == ClearTimer(Machine)
        id == NewId(cleared.intervals, "timer")
    IN  /\ userArmed' = (minutes # 0)
        /\ last' = Did("setTimer", "-", {}, minutes, Path(minutes))
        /\ IF minutes = 0
           THEN /\ Becomes(cleared)
                /\ UNCHANGED <<timerDuration, timerEndTime>>
           ELSE /\ timerDuration' = minutes * TickMs
                /\ timerEndTime' = minutes * TickMs
                /\ Becomes([cleared EXCEPT !.intervals = @ \cup {Interval("timer", id)},
                                           !.timerInterval = id])
        /\ UNCHANGED <<currentSound, comboSounds, masterGain>>

\* setTimer without the clearTimer() it begins with
SetTimer_NoClear(minutes) ==
    LET id == NewId(intervals, "timer")
    IN  /\ userArmed' = (minutes # 0)
        /\ last' = Did("setTimer", "-", {}, minutes, Path(minutes))
        /\ IF minutes = 0
           THEN /\ Becomes(Machine)
                /\ UNCHANGED <<timerDuration, timerEndTime>>
           ELSE /\ timerDuration' = minutes * MsPerMinute
                /\ timerEndTime' = minutes * MsPerMinute
                /\ Becomes([Machine EXCEPT !.intervals = @ \cup {Interval("timer", id)},
                                           !.timerInterval = id])
        /\ UNCHANGED <<currentSound, comboSounds, masterGain>>

\* a click on the timer button of minutes
SetTimer(minutes) ==
    LET cleared == ClearTimer(Machine)
        id == NewId(cleared.intervals, "timer")
    IN  /\ userArmed' = (minutes # 0)
        /\ last' = Did("setTimer", "-", {}, minutes, Path(minutes))
        /\ IF minutes = 0
           THEN /\ Becomes(cleared)
                /\ UNCHANGED <<timerDuration, timerEndTime>>
           ELSE /\ timerDuration' = minutes * MsPerMinute
                /\ timerEndTime' = minutes * MsPerMinute
                /\ Becomes([cleared EXCEPT !.intervals = @ \cup {Interval("timer", id)},
                                           !.timerInterval = id])
        /\ UNCHANGED <<currentSound, comboSounds, masterGain>>

\* the time left to the deadline after a step of the clock; the clock is read no
\* more once the deadline is reached
AfterStep(t) == IF t - SecondsPerStep * TickMs <= 0 THEN 0 ELSE t - SecondsPerStep * TickMs

\* a step of the clock while the timer interval i is live: its callback runs every
\* second and, when Date.now() >= timerEndTime, stops everything
TimerTick(i) ==
    /\ Interval("timer", i) \in intervals
    /\ timerEndTime' = AfterStep(timerEndTime)
    /\ IF AfterStep(timerEndTime) <= 0
       THEN Becomes(ClearTimer(ResetTiles(StopAllSounds(Machine))))
       ELSE Becomes(Machine)
    /\ last' = Did("timerTick", "-", {}, i,
                   IF AfterStep(timerEndTime) <= 0 THEN "expired" ELSE "wait")
    /\ UNCHANGED <<currentSound, comboSounds, masterGain, timerDuration, userArmed>>

\* a step of the clock while no timer interval is live
Elapse ==
    /\ Live(intervals, "timer") = {}
    /\ timerEndTime > 0
    /\ timerEndTime' = AfterStep(timerEndTime)
    /\ notice' = "none"
    /\ last' = Did("elapse", "-", {}, 0, "-")
    /\ UNCHANGED <<activeSounds, intervals, timeouts, audioContext, nodes, playing, currentSound,
                   comboSounds, masterGain, timerDuration, timerInterval, userArmed>>

\* a scheduler callback without the test of activeSounds[owner]
Scheduler_NoCheck(n, owner, i) ==
    /\ Interval(n, i) \in intervals
    /\ intervals' = intervals
    /\ last' = Did(n, owner, {}, i, "transient")
    /\ notice' = "none"
    /\ UNCHANGED <<activeSounds, timeouts, audioContext, nodes, playing, currentSound, comboSounds,
                   masterGain, timerDuration, timerEndTime, timerInterval, userArmed>>

\* a scheduler callback that keeps the transient it starts in the owner's handle set
Scheduler_Tracks(n, owner, i) ==
    /\ Interval(n, i) \in intervals
    /\ \/ /\ activeSounds[owner] = NoEntry
          /\ intervals' = intervals \ {Interval(n, i)}
          /\ activeSounds' = activeSounds
          /\ last' = Did(n, owner, {}, i, "cancel")
       \/ /\ activeSounds[owner] # NoEntry
          /\ intervals' = intervals
          /\ activeSounds' = [activeSounds EXCEPT ![owner] = Append(@, Source("drop"))]
          /\ last' = Did(n, owner, {}, i, "transient")
    /\ notice' = "none"
    /\ UNCHANGED <<timeouts, audioContext, nodes, playing, currentSound, comboSounds,
                   masterGain, timerDuration, timerEndTime, timerInterval, userArmed>>

\* the callback of the live interval i of scheduler n, created by the builder of owner:
\* it cancels itself when owner has no key, and else, when Math.random() says so,
\* starts a transient (a callback that does nothing leaves the state as it is)
Scheduler(n, owner, i) ==
    /\ Interval(n, i) \in intervals
    /\ \/ /\ activeSounds[owner] = NoEntry
          /\ intervals' = intervals \ {Interval(n, i)}
          /\ last' = Did(n, owner, {}, i, "cancel")
       \/ /\ activeSounds[owner] # NoEntry
          /\ intervals' = intervals
          /\ last' = Did(n, owner, {}, i, "transient")
    /\ notice' = "none"
    /\ UNCHANGED <<activeSounds, timeouts, audioContext, nodes, playing, currentSound, comboSounds,
                   masterGain, timerDuration, timerEndTime, timerInterval, userArmed>>

\* the callback of the pending timeout i of the lullaby's step chain
NextNote(i) ==
    \E t \in timeouts :
        /\ t.id = i
        /\ t.noteIndex < MaxNotes
        /\ Becomes(PlayNextNote([Machine EXCEPT !.timeouts = @ \ {t}], t))
        /\ last' = IF activeSounds["lullaby"] = NoEntry
                   THEN Did("playNextNote", "-", {}, i, "return")
                   ELSE Did("playNextNote", NoteAt(t.noteIndex), {}, i, "note")
        /\ UNCHANGED <<currentSound, comboSounds, masterGain, timerDuration, timerEndTime,
                       userArmed>>

\* the promise of a pending resume() resolves: the context runs
Resumed ==
    /\ audioContext = "resuming"
    /\ audioContext' = "running"
    /\ notice' = "none"
    /\ last' = Did("resumed", "-", {}, 0, "-")
    /\ UNCHANGED <<activeSounds, intervals, timeouts, nodes, playing, currentSound,
                   comboSounds, masterGain, timerDuration, timerEndTime, timerInterval,
                   userArmed>>

\* the browser suspends the running context (autoplay policy, an interruption)
Interrupted ==
    /\ audioContext = "running"
    /\ audioContext' = "suspended"
    /\ notice' = "none"
    /\ last' = Did("interrupted", "-", {}, 0, "-")
    /\ UNCHANGED <<activeSounds, intervals, timeouts, nodes, playing, currentSound,
                   comboSounds, masterGain, timerDuration, timerEndTime, timerInterval,
                   userArmed>>

RaindropScheduler(i) == Scheduler("raindropScheduler", "rain", i)
BirdScheduler(i) == Scheduler("birdScheduler", "forest", i)
WindScheduler(i) == Scheduler("windScheduler", "forest", i)

Next ==
    \/ \E s \in SoundTypes : ToggleSound(s)
    \/ \E checked \in SUBSET Checkboxes : ApplyComboSettings(checked)
    \/ \E v \in Volumes : SetVolume(v)
    \/ \E m \in TimerMinutes : SetTimer(m)
    \/ \E i \in 1..MaxIntervals : TimerTick(i)
    \/ Elapse
    \/ \E i \in 1..MaxIntervals : RaindropScheduler(i)

Spec == Init /\ [][Next]_vars

NextForest ==
    \/ \E s \in ForestTypes : ToggleSound(s)
    \/ \E checked \in SUBSET ForestTypes : ApplyComboSettings(checked)
    \/ \E i \in 1..MaxIntervals : BirdScheduler(i)
    \/ \E i \in 1..MaxIntervals : WindScheduler(i)

SpecForest == Init /\ [][NextForest]_vars

NextLullaby ==
    \/ \E s \in LullabyTypes : ToggleSound(s)
    \/ \E i \in 1..MaxIntervals : NextNote(i)
    \/ \E i \in 1..MaxIntervals : RaindropScheduler(i)

SpecLullaby == Init /\ [][NextLullaby]_vars

NextArm ==
    \/ \E s \in ArmTypes : ToggleSound(s)
    \/ \E checked \in SUBSET ArmTypes : ApplyComboSettings(checked)
    \/ \E m \in ArmMinutes : SetTimer(m)
    \/ \E i \in 1..MaxIntervals : TimerTick(i)
    \/ Elapse

SpecArm == Init /\ [][NextArm]_vars

NextResume ==
    \/ \E s \in ResumeTypes : ToggleSound(s)
    \/ \E checked \in SUBSET (ResumeTypes \cap ComboKeys) : ApplyComboSettings(checked)
    \/ Resumed
    \/ Interrupted

SpecResume == Init /\ [][NextResume]_vars

\* clicks on the tiles of all nine categories, with builders that may fail to allocate
NextAlloc ==
    \/ \E s \in Categories : ToggleSound(s)
    \/ \E s \in Categories : \E k \in 1..Len(Steps(s)) : ToggleSoundThrows(s, k)

SpecAlloc == Init /\ [][NextAlloc]_vars

\* clicks on the tiles of all nine categories, each before any callback has run
NextTiles == \E s \in Categories : ToggleSound(s)

SpecTiles == Init /\ [][NextTiles]_vars

----------------------------------------------------------------------------
(* The claims *)

registry == Keys(activeSounds)
registry_ == Keys(activeSounds')

\* C1: a commit with no checkbox ticked leaves the registry, the tiles and the timer
\* as they were and shows the 'select at least one sound' alert.
C1_EmptyCommitChangesNothing ==
    [][(last'.op = "applyComboSettings" /\ last'.sel = {})
         => /\ activeSounds' = activeSounds
            /\ nodes' = nodes
            /\ playing' = playing
            /\ timerInterval' = timerInterval
            /\ timerEndTime' = timerEndTime
            /\ notice' = "alert"]_vars

\* C2: after a commit of a non-empty selection the registry's keys are exactly the
\* selected categories.
C2_CommitStartsSelection ==
    [][(last'.op = "applyComboSettings" /\ last'.sel # {})
         => registry_ = last'.sel]_vars

\* C3: while the user's last timer request is an arm for minutes > 0, the step of
\* the clock that reaches the deadline leaves the registry empty.
C3_SoundsStopAtDeadline ==
    [][(userArmed /\ timerEndTime > 0 /\ timerEndTime' <= 0)
         => registry_ = {}]_vars

\* C4: a toggle, a commit and a volume change leave an armed timer armed, with the
\* same deadline.
C4_TimerFrame ==
    [][(timerInterval # NoTimer
        /\ last'.op \in {"toggleSound", "applyComboSettings", "setVolume"})
         => /\ timerInterval' = timerInterval
            /\ Interval("timer", timerInterval) \in intervals'
            /\ timerEndTime' = timerEndTime]_vars

\* C5: a toggle of a category with no builder changes neither the registry nor the
\* tiles nor the timer, and is logged with a warning.
C5_UnknownCategoryIsNoOp ==
    [][(last'.op = "toggleSound" /\ last'.sound \notin Categories)
         => /\ activeSounds' = activeSounds
            /\ nodes' = nodes
            /\ playing' = playing
            /\ timerInterval' = timerInterval
            /\ notice' = "warn"]_vars

\* C6: while no combination has been committed (comboSounds is all false) the
\* registry holds at most one key; and a toggle that starts a known category leaves
\* the registry equal to that category alone, whatever was playing before.
C6_ExclusiveMode ==
    /\ Selected(comboSounds) = {} => Cardinality(registry) <= 1
    /\ (last.op = "toggleSound" /\ last.branch = "start" /\ last.sound \in Categories)
         => registry = {last.sound}

\* C6 witness: a category was started by a toggle after a combination was committed
C6_Witness ==
    /\ last.op = "toggleSound" /\ last.branch = "start"
    /\ Cardinality(Selected(comboSounds)) >= 2
    /\ registry = {last.sound}

\* the categories of a committed combination are playing, two at least, and the
\* handler that runs next is a toggle of one of them
ComboToggle ==
    /\ Cardinality(registry) >= 2
    /\ registry \subseteq Selected(comboSounds)
    /\ last'.op = "toggleSound"
    /\ last'.sound \in registry

\* C7, as claimed: a toggle of an active category of a combination leaves none of
\* the combination's categories in the registry.
C7_ToggleStopsWholeCombo ==
    [][ComboToggle => registry_ \cap Selected(comboSounds) = {}]_vars

\* C7, amended: a toggle of an active category of a combination stops that category
\* alone; the other categories of the combination keep their handle sets.
C7_ToggleStopsOneOfCombo ==
    [][ComboToggle
         => /\ last'.branch = "stop"
            /\ registry_ = registry \ {last'.sound}
            /\ \A c \in registry_ : activeSounds'[c] = activeSounds[c]
            /\ \A n \in nodes : (n \in nodes') = (n[1] # last'.sound)]_vars

\* C7 witness: one category of a committed combination was toggled off and another
\* category of the combination is in the registry
C7_Witness ==
    /\ last.op = "toggleSound" /\ last.branch = "stop"
    /\ last.sound \in Selected(comboSounds)
    /\ registry # {}
    /\ registry \subseteq Selected(comboSounds) \ {last.sound}

\* C8: a toggle of the one category that is playing stops it and empties the
\* registry; the toggle does not start it again.
C8_ToggleOffEmptiesRegistry ==
    [][(last'.op = "toggleSound" /\ registry = {last'.sound})
         => /\ last'.branch = "stop"
            /\ registry_ = {}
            /\ nodes' = {}
            /\ playing' = {}]_vars

\* C8 witness: the category that played alone was toggled off
C8_Witness ==
    /\ last.op = "toggleSound" /\ last.branch = "stop"
    /\ last.sound \in Categories
    /\ currentSound = last.sound
    /\ registry = {}

\* C9: a step that removes a category from the registry cancels every scheduler
\* interval of that category's handle set.
C9_StopCancelsSchedulers ==
    [][\A c \in Categories :
         (activeSounds[c] # NoEntry /\ activeSounds'[c] = NoEntry)
            => IntervalsOf(activeSounds[c]) \cap intervals' = {}]_vars

SchedulerNames == {"raindropScheduler", "birdScheduler", "windScheduler"}

\* C10: the callback of a scheduler whose handle set is no longer registered cancels
\* the scheduler and starts no transient, also when the category has been started
\* again in the meantime.
C10_OrphanSchedulerCancelsItself ==
    [][(last'.op \in SchedulerNames
        /\ Interval(last'.op, last'.num) \notin Registered(activeSounds))
         => /\ last'.branch = "cancel"
            /\ Interval(last'.op, last'.num) \notin intervals']_vars

\* the oscillator the closure of step chain i holds
noteOsc(i) == <<"lullaby", [Source("noteOsc") EXCEPT !.id = i]>>

\* C11: the step chain of a lullaby that was stopped schedules no further step at its
\* next invocation, also when the lullaby was restarted before that invocation; the
\* chain of the registered lullaby reschedules itself and plays note k mod 9 at step k.
C11_StoppedChainEnds ==
    [][last'.op = "playNextNote"
         => \A t \in timeouts : t.id = last'.num
              => IF noteOsc(t.id) \in nodes
                 THEN /\ last'.sound = Notes[(t.noteIndex % 9) + 1]
                      /\ Chain(t.id, t.noteIndex + 1) \in timeouts'
                 ELSE /\ last'.branch = "return"
                      /\ \A u \in timeouts' : u.id # t.id]_vars

\* the category whose builder creates callback n
Owner(n) == CASE n = "raindropScheduler" -> "rain"
              [] n \in {"birdScheduler", "windScheduler"} -> "forest"
              [] n = "playNextNote" -> "lullaby"

\* C12: while category C has no key (after its stop and until its next start) a run of
\* a scheduler or step callback of C creates no sound: no transient and no note.
C12_NoSoundAfterStop ==
    [][(last'.op \in SchedulerNames \cup {"playNextNote"} /\ activeSounds[Owner(last'.op)] = NoEntry)
         => /\ last'.branch \in {"cancel", "return"}
            /\ nodes' = nodes
            /\ activeSounds' = activeSounds]_vars

C12_Witness ==
    /\ last.op = "raindropScheduler"
    /\ last.branch = "cancel"
    /\ activeSounds["rain"] = NoEntry
    /\ Interval("raindropScheduler", last.num) \notin intervals

\* C13: for every category C, a start of C followed at once by a stop of C leaves the
\* registry empty, every source of C's handle set stopped and every stage disconnected.
C13_StartThenStop ==
    [][(/\ last.op = "toggleSound" /\ last.branch = "start" /\ last.sound \in Categories
        /\ last'.op = "toggleSound" /\ last'.sound = last.sound)
         => /\ last'.branch = "stop"
            /\ registry_ = {}
            /\ \A h \in Handles(activeSounds[last.sound]) :
                   h.kind \in {"source", "stage"} => <<last.sound, h>> \notin nodes']_vars

C13_Witness ==
    /\ last.op = "toggleSound" /\ last.branch = "stop" /\ last.sound = "heartbeat"
    /\ currentSound = "heartbeat"
    /\ registry = {}
    /\ nodes = {}

\* the length of one step of the clock
StepMs == SecondsPerStep * TickMs

\* C14: after arm(1) the deadline is 60 s away and only the clock moves it; a tick
\* before the deadline stops nothing, and the first tick at or after it empties the
\* registry, disarms the timer and leaves no interval of the timer to fire again.
C14_ExpiryAtDeadline ==
    [][/\ (last'.op = "setTimer" /\ last'.num = 1) => timerEndTime' = 60 * 1000
       /\ last'.op \notin {"setTimer", "timerTick", "elapse"} => timerEndTime' = timerEndTime
       /\ last'.op = "timerTick"
            => IF timerEndTime > StepMs
               THEN /\ last'.branch = "wait"
                    /\ timerEndTime' = timerEndTime - StepMs
                    /\ activeSounds' = activeSounds /\ nodes' = nodes
                    /\ timerInterval' = timerInterval /\ intervals' = intervals
               ELSE /\ last'.branch = "expired"
                    /\ timerEndTime' = 0
                    /\ registry_ = {} /\ nodes' = {}
                    /\ timerInterval' = NoTimer
                    /\ Live(intervals', "timer") = {}]_vars

C14_Witness ==
    /\ last.op = "timerTick" /\ last.branch = "expired"
    /\ timerDuration = 60 * 1000
    /\ currentSound # NULL
    /\ registry = {}
    /\ timerInterval = NoTimer

\* C15: a setTimer(b), b > 0, leaves exactly one live interval of the timer, the one
\* timerInterval names, and the deadline b minutes ahead, also when a timer was armed;
\* at most one interval of the timer is live in every reachable state.
C15_RearmReplaces ==
    /\ [](Cardinality(Live(intervals, "timer")) <= 1)
    /\ [][(last'.op = "setTimer" /\ last'.num > 0)
            => /\ Live(intervals', "timer") = {Interval("timer", timerInterval')}
               /\ timerEndTime' = last'.num * MsPerMinute
               /\ timerDuration' = last'.num * MsPerMinute]_vars

C15_Witness ==
    /\ last.op = "setTimer" /\ last.branch = "rearm" /\ last.num = 2
    /\ timerEndTime = 2 * MsPerMinute
    /\ Live(intervals, "timer") = {Interval("timer", timerInterval)}

\* C16: setTimer(0) leaves no interval of the timer live and the registry, the nodes and
\* the tiles as they were; while no interval of the timer is live the passing of time
\* stops nothing.
C16_CancelIsImmediate ==
    [][/\ (last'.op = "setTimer" /\ last'.num = 0)
            => /\ timerInterval' = NoTimer
               /\ Live(intervals', "timer") = {}
               /\ activeSounds' = activeSounds /\ nodes' = nodes /\ playing' = playing
       /\ (Live(intervals, "timer") = {} /\ last'.op \in {"timerTick", "elapse"})
            => /\ last'.op = "elapse"
               /\ activeSounds' = activeSounds /\ nodes' = nodes]_vars

C16_Witness ==
    /\ last.op = "setTimer" /\ last.branch = "cancel"
    /\ registry # {}
    /\ timerInterval = NoTimer
    /\ timerEndTime > 0

\* C17: stopAllSounds, run in any reachable state, leaves no key in the registry, no
\* node of a key that was present and no timer armed; so does every handler that ends
\* with it (the timer's expiry and the commit of an empty selection).
C17_StopAllEmpties ==
    /\ LET m == StopAllSounds(Machine)
       IN  /\ Keys(m.activeSounds) = {}
           /\ \A c \in registry : \A h \in Handles(activeSounds[c]) : <<c, h>> \notin m.nodes
           /\ m.timerInterval = NoTimer
           /\ Live(m.intervals, "timer") = {}
    /\ (last.branch \in {"expired", "alert"})
         => registry = {} /\ timerInterval = NoTimer /\ Live(intervals, "timer") = {}

C17_Witness ==
    /\ last.op = "timerTick" /\ last.branch = "expired"
    /\ Live(intervals, "raindropScheduler") # {}
    /\ currentSound = "ocean"
    /\ registry = {}
    /\ timerInterval = NoTimer

\* C18: comboSounds is all false after every combination commit.
C18_SelectionClearedByCommit ==
    [][last'.op = "applyComboSettings" => Selected(comboSounds') = {}]_vars

\* C18, amended: after a commit comboSounds holds the committed selection, true for
\* exactly the ticked ones of the eight keys the commit reads, and no other handler
\* changes it.
C18_SelectionKeptByCommit ==
    [][IF last'.op = "applyComboSettings"
       THEN comboSounds' = [k \in ComboKeys |-> k \in last'.sel]
       ELSE comboSounds' = comboSounds]_vars

C18_Witness ==
    /\ last.op = "toggleSound"
    /\ Selected(comboSounds) = {"ocean", "rain"}
    /\ "pink-noise" \notin DOMAIN comboSounds
    /\ registry = {"pink-noise"}

\* C19: a category has a key exactly when a source started for it is running, every
\* running or connected node is held by the handle set of its category's key, and
\* every source and stage of a registered handle set is running or connected.
C19_RegistryIsWhatRuns ==
    /\ \A c \in Categories :
          (c \in registry) <=> (\E n \in nodes : n[1] = c /\ n[2].kind # "stage")
    /\ \A n \in nodes : n[2] \in Handles(activeSounds[n[1]])
    /\ \A c \in registry : \A h \in Handles(activeSounds[c]) :
          h.kind \in {"source", "stage"} => <<c, h>> \in nodes

C19_Witness ==
    /\ last.op = "applyComboSettings" /\ last.branch = "play"
    /\ currentSound = "ocean"
    /\ registry = {"ocean", "rain"}
    /\ Live(intervals, "raindropScheduler") \ Registered(activeSounds) # {}

\* C20: setVolume sets the one master gain to its argument and changes neither the
\* registry nor the timer, no other handler changes the gain, and every chain and
\* every transient reaches the destination through that gain.
C20_OneMasterGain ==
    /\ [](\A c \in Categories \cup Transients : OutputGain(c) = masterGain)
    /\ [][IF last'.op = "setVolume"
           THEN /\ masterGain' = last'.num
                /\ activeSounds' = activeSounds /\ nodes' = nodes /\ intervals' = intervals
                /\ timerInterval' = timerInterval /\ timerEndTime' = timerEndTime
           ELSE masterGain' = masterGain]_vars

C20_Witness ==
    /\ last.op = "setVolume" /\ last.num = 70
    /\ masterGain = 70
    /\ Cardinality(registry) = 2
    /\ timerInterval # NoTimer

\* the categories a handler started: the clicked one, or the ticked ones of a commit
Started(l) ==
    IF l.op = "toggleSound" /\ l.branch = "start" THEN {l.sound} \cap Categories
    ELSE IF l.op = "applyComboSettings" THEN l.sel \cap ComboKeys
    ELSE {}

\* C22: a start request made while the context is suspended calls resume() in the same
\* handler, builds and registers the category and reports no error.
C22_ResumeOnStart ==
    [][(Started(last') # {} /\ audioContext # "running")
         => /\ audioContext' = "resuming"
            /\ Started(last') \subseteq registry_
            /\ \A c \in Started(last') : \E n \in nodes' : n[1] = c /\ n[2].kind = "source"
            /\ notice' = "none"]_vars

C22_Witness ==
    /\ last.op = "toggleSound" /\ last.branch = "start" /\ last.sound = "heartbeat"
    /\ currentSound = "heartbeat"
    /\ audioContext = "resuming"
    /\ registry = {"heartbeat"}
    /\ Selected(comboSounds) = {"ocean"}

\* C21: a builder that throws while allocating leaves no key for its category, no
\* source of the abandoned graph running and no scheduler of it live.
C21_FailedStartLeavesNothing ==
    [][last'.branch = "throw"
         => /\ activeSounds'[last'.sound] = NoEntry
            /\ \A n \in nodes' : n[1] # last'.sound
            /\ intervals' \subseteq intervals
            /\ last'.sound \notin playing']_vars

C21_Witness ==
    /\ last.op = "toggleSound" /\ last.branch = "throw" /\ last.sound = "rain"
    /\ last.num = 5
    /\ currentSound = "heartbeat"
    /\ notice = "error"
    /\ registry = {}
    /\ nodes = {}

\* C23: each recurring callback kind has at most one live instance in every reachable
\* state: one droplet interval, one bird interval, one wind interval, one step chain.
C23_OneSchedulerPerKind ==
    /\ \A n \in SchedulerNames : Cardinality(Live(intervals, n)) <= 1
    /\ Cardinality(timeouts) <= 1

\* C24: the tiles marked 'playing' are the keys of the registry in every reachable state.
C24_TilesAreRegistry == playing = registry

C24_Witness ==
    /\ last.op = "toggleSound" /\ last.branch = "stop"
    /\ Cardinality(Selected(comboSounds)) = 2
    /\ Cardinality(registry) = 1
    /\ playing = registry
    /\ last.sound \notin registry

\* C25: stopSound(C) leaves the handle set of every other category, the timer and the
\* master gain as they were, and changes nothing when C has no key; so does the toggle
\* that stops C.
C25_StopFrame ==
    /\ [](\A c \in Categories \cup {"unknown"} :
            LET m == StopSound(Machine, c)
            IN  /\ \A d \in Categories \ {c} : m.activeSounds[d] = activeSounds[d]
                /\ \A n \in nodes : n[1] # c => n \in m.nodes
                /\ m.timerInterval = timerInterval
                /\ m.intervals = intervals
                /\ c \notin registry => m = Machine)
    /\ [][(last'.op = "toggleSound" /\ last'.branch = "stop")
            => /\ \A d \in Categories \ {last'.sound} : activeSounds'[d] = activeSounds[d]
               /\ timerInterval' = timerInterval /\ timerEndTime' = timerEndTime
               /\ timerDuration' = timerDuration /\ intervals' = intervals
               /\ masterGain' = masterGain]_vars

C25_Witness ==
    /\ last.op = "toggleSound" /\ last.branch = "stop" /\ last.sound = "ocean"
    /\ registry = {"rain"}
    /\ timerInterval # NoTimer
    /\ masterGain = 70

\* the names of the handles a builder stores
Names(hs) == {h.name : h \in Handles(hs)}

\* C26: a run of a scheduler or step callback leaves every handle set as it was, and a
\* registered handle set always holds the handles its builder stored and no other.
C26_TransientsNotTracked ==
    /\ [](\A c \in registry : Names(activeSounds[c]) = Names(HandleSet(c, {})))
    /\ [][last'.op \in SchedulerNames \cup {"playNextNote"}
            => activeSounds' = activeSounds]_vars

C26_Witness ==
    /\ last.op = "raindropScheduler" /\ last.branch = "transient"
    /\ Names(activeSounds["rain"]) = Names(HandleSet("rain", {}))
    /\ \E t \in timeouts : t.noteIndex > 1

\* C27: whenever currentSound names a category that category has a key, and whenever
\* the registry is empty currentSound is null.
C27_CurrentSoundIsPlaying ==
    /\ currentSound \in Categories => currentSound \in registry
    /\ registry = {} => currentSound = NULL

====
